---- MODULE Spec2Model ----
(***************************************************************************)
(* Model of the Percipio depth-camera test harness                         *)
(* (src/percipio_camera_test.py): the session object PercipioCameraTester, *)
(* its setup / run_test / run_all_tests / close operations, the five test  *)
(* procedures at the level of their acquisitions, and the top-level        *)
(* driver main().                                                          *)
(*                                                                         *)
(* Python's None is modelled by the empty set and a present value v by     *)
(* {v} wherever a field is Optional (depth_scale_factor, error_message,    *)
(* depth_stats, ...).  Depths are kept as integers: a scale factor s       *)
(* stands for s/1000 mm per raw unit, so raw * s is a depth in micro-mm.   *)
(***************************************************************************)
EXTENDS Integers, Sequences, FiniteSets, TLC

(***************************************************************************)
(* Bounds of the model                                                     *)
(***************************************************************************)
\* number of pixels of a depth frame
NPix == 2
\* largest repeatability / noise acquisition count that is configured
MaxCount == 2
\* largest number of loop iterations of a duration-bound procedure
MaxIter == 1
\* largest number of close() calls made on one session
MaxClose == 3
\* largest number of valid pixels of a repeatability seed frame
MaxValid == 26
\* longest stability duration on the clock, in ticks
MaxTicks == 104

(***************************************************************************)
(* Program constants                                                       *)
(***************************************************************************)
\* 0.016 mm per raw unit, in thousandths
DefaultScale == 16
\* upper end of the validity range (16-bit depth)
MaxRaw == 65535
\* target number of repeatability points
TargetPoints == 25
\* measurements[:50]: the measurements a stability result keeps
MeasurementsKept == 50
\* interval = 1.0 second, in the half-second ticks the stability clock counts
Interval == 2

None == {}
Some(v) == {v}
Val(o) == CHOOSE v \in o : TRUE

\* raw values a pixel takes in the model: invalid low, valid, invalid high
RawVals == {0, 7, MaxRaw}
Frames == [1..NPix -> RawVals]
\* what capture_single_frame returns: None or the depth grid
Captures == {None} \cup {Some(f) : f \in Frames}
\* the captures of a harness run: a timeout, a frame without a valid
\* region, a frame valid everywhere
UniformFrame(v) == [p \in 1..NPix |-> v]
HarnessCaptures == {None, Some(UniformFrame(0)), Some(UniformFrame(7))}

\* scale factors the device reports
DeviceScales == {125}
\* messages of the exceptions raised by SDK / numpy / arithmetic calls
ExcMsgs == {"sdk error"}
\* a procedure either runs to its return or an exception escapes it
Faults == {None} \cup {Some(m) : m \in ExcMsgs}

\* values of the skippable procedures' duration / count parameters
DurationVals == {-1, 0, MaxIter}
NoiseCountVals == {-1, 0, MaxCount}
RepeatCountVals == {MaxCount}

ProcNames == <<"basic", "frame_rate", "repeatability", "stability", "noise">>

VARIABLES
    pc,                  \* position of main()
    handle,              \* self.handle: "None", "Invalid" or "H"
    is_connected,        \* self.is_connected
    depth_scale_factor,  \* self.depth_scale_factor (Optional)
    test_results,        \* self.test_results
    test_params,         \* self.test_params
    scaleWrites,         \* number of assignments to depth_scale_factor
    scaleRead,           \* what DeviceReadCalibDepthScaleUnit returned (Optional)
    openCalls,           \* successful sdk.Open calls
    closeCalls,          \* sdk.Close calls
    streamOffCalls,      \* sdk.DeviceStreamOff calls
    readCalls,           \* sdk.DeviceStreamRead calls
    invoked,             \* procedures invoked by run_test, with their outcome
    setupFailure,        \* the connection step that failed in setup_camera
    saveCalls,           \* save_results calls
    reportCalls,         \* generate_report calls
    interrupted,         \* position at which a KeyboardInterrupt arrived
    ratReturned,         \* run_all_tests() has returned
    closeReturns,        \* completed close() calls
    call,                \* a procedure called on its own: name and inputs
    ret                  \* what that call produced

vars == <<pc, handle, is_connected, depth_scale_factor, test_results,
          test_params, scaleWrites, scaleRead, openCalls, closeCalls,
          streamOffCalls, readCalls, invoked, setupFailure, saveCalls,
          reportCalls, interrupted, ratReturned, closeReturns, call, ret>>


(***************************************************************************)
(* Frame Validity Filter and Depth Unit Converter                          *)
(***************************************************************************)
IsValid(raw) == raw > 0 /\ raw < MaxRaw

ValidPixels(f) == {p \in 1..NPix : IsValid(f[p])}

\* the factor every procedure applies: the session's, or 0.016 when None
EffectiveScale(scale) == IF scale # None THEN Val(scale) ELSE DefaultScale

ToMm(raw, scale) == raw * EffectiveScale(scale)

SetMin(S) == CHOOSE x \in S : \A y \in S : x <= y
SetMax(S) == CHOOSE x \in S : \A y \in S : x >= y

RECURSIVE SeqSum(_)
SeqSum(s) == IF s = <<>> THEN 0 ELSE Head(s) + SeqSum(Tail(s))

\* sequences over S of length lo..hi
SeqsOf(S, lo, hi) == UNION {[1..n -> S] : n \in lo..hi}

Min2(a, b) == IF a <= b THEN a ELSE b

\* the elements of a set of integers in increasing order (np.where order)
RECURSIVE SortedSeq(_)
SortedSeq(S) == IF S = {} THEN <<>>
                ELSE <<SetMin(S)>> \o SortedSeq(S \ {SetMin(S)})

\* the frames of a capture sequence, None entries dropped, order kept
RECURSIVE Got(_)
Got(caps) == IF caps = <<>> THEN <<>>
             ELSE IF Head(caps) = None THEN Got(Tail(caps))
             ELSE <<Val(Head(caps))>> \o Got(Tail(caps))

EmptyDict == <<>>

\* capture_single_frame: None when the session is not connected, else what
\* DeviceStreamRead yields (sdk: None for an exception, an empty list or no
\* depth frame; the depth grid otherwise)
capture_single_frame(conn, sdk) == IF ~conn THEN None ELSE sdk

CaptureAll(conn, caps) == [i \in 1..Len(caps) |-> capture_single_frame(conn, caps[i])]

\* the DeviceStreamRead calls made by n capture_single_frame calls
Reads(conn, n) == IF conn THEN n ELSE 0

(***************************************************************************)
(* The outcome of one procedure call: the dict it returns, or the          *)
(* exception that escapes it, and the DeviceStreamRead calls it made.      *)
(***************************************************************************)
Returned(d, n) == [raised |-> FALSE, msg |-> "", data |-> d, reads |-> n]
Raised(m, n) == [raised |-> TRUE, msg |-> m, data |-> EmptyDict, reads |-> n]

\* statistics of the valid depths of one frame, in micro-mm
DepthStats(f, scale) ==
    LET V == ValidPixels(f)
        mm == {ToMm(f[p], scale) : p \in V}
    IN  [valid_pixels |-> Cardinality(V),
         total_pixels |-> NPix,
         min_depth |-> SetMin(mm),
         max_depth |-> SetMax(mm),
         mean_depth |-> <<SeqSum([i \in 1..Cardinality(V) |->
                                    ToMm(f[SortedSeq(V)[i]], scale)]),
                          Cardinality(V)>>]

\* test_basic_functionality: in.fault is the outcome of sdk.ListDevice(),
\* in.listed whether the session's device is in the list, in.cap the capture
test_basic_functionality(in, conn, scale) ==
    IF in.fault # None THEN Raised(Val(in.fault), 0)
    ELSE LET depth_data == capture_single_frame(conn, in.cap)
         IN  Returned(
               [device_info |-> IF in.listed THEN Some("dev") ELSE None,
                single_capture |-> IF depth_data # None THEN Some(NPix)
                                   ELSE None,
                depth_stats |-> IF depth_data # None
                                   /\ ValidPixels(Val(depth_data)) # {}
                                THEN Some(DepthStats(Val(depth_data), scale))
                                ELSE None],
               Reads(conn, 1))

\* test_frame_rate: in.caps are the captures of the iterations made before
\* the deadline (the frame times themselves are not modelled)
test_frame_rate(in, conn, duration) ==
    IF in.fault # None THEN Raised(Val(in.fault), 0)
    ELSE LET total_count == Len(in.caps)
             success_count == Len(Got(CaptureAll(conn, in.caps)))
         IN  Returned(
               [duration |-> duration,
                total_attempts |-> total_count,
                successful_captures |-> success_count,
                success_rate |-> IF total_count > 0
                                 THEN <<success_count, total_count>>
                                 ELSE <<0, 1>>,
                fps |-> IF success_count > 0 THEN <<success_count, duration>>
                        ELSE <<0, 1>>],
               Reads(conn, total_count))

\* the sample sequence of pixel p over the captured frames
RECURSIVE PointSamples(_, _, _)
PointSamples(frames, p, scale) ==
    IF frames = <<>> THEN <<>>
    ELSE (IF IsValid(Head(frames)[p]) THEN <<ToMm(Head(frames)[p], scale)>>
          ELSE <<>>) \o PointSamples(Tail(frames), p, scale)

SeqRange(s) == {s[i] : i \in 1..Len(s)}

\* per-point statistics of a sample sequence with at least 2 samples
PointStats(j, p, samples) ==
    [point_id |-> j,
     coordinates |-> p,
     measurement_count |-> Len(samples),
     mean_depth |-> <<SeqSum(samples), Len(samples)>>,
     depth_range |-> SetMax(SeqRange(samples)) - SetMin(SeqRange(samples))]

\* the loop left at the first failed acquisition
SamplingLoop_StopAtFailure(conn, caps, count, sel, scale) ==
    LET all == [i \in 1..count |-> capture_single_frame(conn, caps[i])]
        failed == {i \in 1..count : all[i] = None}
        taken == IF failed = {} THEN all ELSE SubSeq(all, 1, SetMin(failed))
        frames == Got(taken)
    IN  [attempts |-> Len(taken),
         success_count |-> Len(frames),
         point_data |-> [j \in 1..Len(sel) |->
                           PointSamples(frames, sel[j], scale)]]

\* the sampling loop, for i in range(count): caps[i] is what the i-th
\* acquisition yields; a frame adds to every point whose raw value is valid
SamplingLoop(conn, caps, count, sel, scale) ==
    LET taken == [i \in 1..count |-> capture_single_frame(conn, caps[i])]
        frames == Got(taken)
    IN  [attempts |-> Len(taken),
         success_count |-> Len(frames),
         point_data |-> [j \in 1..Len(sel) |->
                           PointSamples(frames, sel[j], scale)]]

\* a point enters point_analysis with a single sample
Qualifies_One(samples) == Len(samples) >= 1

\* a point enters point_analysis: len(point_data[i]) >= 2
Qualifies(samples) == Len(samples) >= 2

\* test_repeatability: in.seed is the first capture, in.sel the selected
\* points (point id -> pixel), in.caps the captures of the sampling loop,
\* in.fault an exception raised once the sampling starts
test_repeatability(in, conn, count, scale) ==
    LET initial_depth == capture_single_frame(conn, in.seed)
    IN  IF initial_depth = None
        THEN Returned([error |-> "no initial frame"], Reads(conn, 1))
        ELSE IF ValidPixels(Val(initial_depth)) = {}
        THEN Returned([error |-> "no valid region"], Reads(conn, 1))
        ELSE IF in.fault # None THEN Raised(Val(in.fault), Reads(conn, 1))
        ELSE LET target_points == Len(in.sel)
                 loop == SamplingLoop(conn, in.caps, count, in.sel, scale)
                 point_data == loop.point_data
                 qualifying == {j \in 1..target_points :
                                  Qualifies(point_data[j])}
                 ids == SortedSeq(qualifying)
                 point_analysis == [k \in 1..Len(ids) |->
                                      PointStats(ids[k], in.sel[ids[k]],
                                                 point_data[ids[k]])]
                 valid_points == Len(point_analysis)
             IN  IF valid_points = 0
                 THEN Returned([error |-> "not enough valid point data"],
                               Reads(conn, 1 + loop.attempts))
                 ELSE Returned(
                        [test_count |-> count,
                         success_count |-> loop.success_count,
                         success_rate |-> <<loop.success_count, count>>,
                         target_points |-> target_points,
                         valid_points |-> valid_points,
                         point_analysis |-> point_analysis,
                         test_point_coordinates |-> in.sel,
                         raw_depth_data |-> point_data],
                        Reads(conn, 1 + loop.attempts))

\* the subsets of V that leave k of its elements out
RECURSIVE LeaveOut(_, _)
LeaveOut(V, k) ==
    IF k = 0 THEN {V}
    ELSE UNION {LeaveOut(V \ {x}, k - 1) : x \in V}

\* s started at its (r+1)-th element and wrapped around
Rotate(s, r) == [i \in 1..Len(s) |-> s[((i - 1 + r) % Len(s)) + 1]]

\* the arrangements np.random.choice(len, target, replace=False) is drawn
\* from: any target_points of the valid pixels, here in np.where order
\* started at any of them
Arrangements(V) ==
    {Rotate(SortedSeq(K), r) :
        K \in LeaveOut(V, Cardinality(V) - TargetPoints),
        r \in 0..(TargetPoints - 1)}

\* the draw made with replace=True: a pixel may come twice
SelectPoints_WithReplacement(V) ==
    IF Cardinality(V) >= TargetPoints
    THEN {[s EXCEPT ![2] = s[1]] : s \in Arrangements(V)}
    ELSE {SortedSeq(V)}

\* the selected test points (point id -> pixel) for the valid pixels V of
\* the seed frame
SelectPoints(V) ==
    IF Cardinality(V) >= TargetPoints
    THEN Arrangements(V)
    ELSE {SortedSeq(V)}

\* the point selections np.random.choice / np.where can produce for a seed
Selections(seed) == SelectPoints(ValidPixels(seed))

\* one stability measurement of a frame with a valid region
Measurement(f, scale) ==
    LET V == ValidPixels(f)
        raws == {f[p] : p \in V}
    IN  [valid_pixels |-> Cardinality(V),
         total_pixels |-> NPix,
         mean_depth |-> <<SeqSum([i \in 1..Cardinality(V) |->
                                    f[SortedSeq(V)[i]]])
                            * EffectiveScale(scale), Cardinality(V)>>,
         min_depth |-> SetMin(raws) * EffectiveScale(scale),
         max_depth |-> SetMax(raws) * EffectiveScale(scale)]

RECURSIVE Measurements(_, _)
Measurements(frames, scale) ==
    IF frames = <<>> THEN <<>>
    ELSE (IF ValidPixels(Head(frames)) # {}
          THEN <<Measurement(Head(frames), scale)>> ELSE <<>>)
         \o Measurements(Tail(frames), scale)

\* the aggregate over a truncated measurement list
StabilityMetrics_OverKept(measurements) ==
    LET kept == SubSeq(measurements, 1,
                       Min2(MeasurementsKept, Len(measurements)))
    IN  Some([valid_pixels_sum |->
                SeqSum([i \in 1..Len(kept) |-> kept[i].valid_pixels]),
              n |-> Len(kept),
              mean_depths |-> [i \in 1..Len(kept) |-> kept[i].mean_depth]])

\* stability_metrics: valid_pixels_mean is valid_pixels_sum / n, and
\* mean_depths are the values mean_depth_mean and mean_depth_std are taken
\* over
StabilityMetrics(measurements) ==
    Some([valid_pixels_sum |->
            SeqSum([i \in 1..Len(measurements) |->
                      measurements[i].valid_pixels]),
          n |-> Len(measurements),
          mean_depths |-> [i \in 1..Len(measurements) |->
                             measurements[i].mean_depth]])

\* the analysis after the stability loop: expected is int(duration/interval)
StabilityAnalysis(measurements, duration, expected, reads) ==
    IF measurements # <<>> /\ expected = 0
    THEN Raised("division by zero", reads)
    ELSE Returned(
           [duration |-> duration,
            total_measurements |-> Len(measurements),
            success_rate |-> IF measurements # <<>>
                             THEN <<Len(measurements), expected>>
                             ELSE <<0, 1>>,
            stability_metrics |->
                IF measurements # <<>>
                THEN StabilityMetrics(measurements)
                ELSE None,
            measurements |-> SubSeq(measurements, 1,
                                    Min2(MeasurementsKept,
                                         Len(measurements)))],
           reads)

\* test_stability: in.caps are the captures of the iterations made before
\* the deadline; interval = 1 second, so int(duration / interval) = duration
\* for a duration in whole seconds
test_stability(in, conn, duration, scale) ==
    IF in.fault # None THEN Raised(Val(in.fault), 0)
    ELSE StabilityAnalysis(
           Measurements(Got(CaptureAll(conn, in.caps)), scale),
           duration, duration, Reads(conn, Len(in.caps)))

\* the measurement dict of the loop, with the time since start_time at which
\* it was taken
TimedMeasurement(f, scale, ts) ==
    LET m == Measurement(f, scale)
    IN  [timestamp |-> ts,
         valid_pixels |-> m.valid_pixels,
         total_pixels |-> m.total_pixels,
         mean_depth |-> m.mean_depth,
         min_depth |-> m.min_depth,
         max_depth |-> m.max_depth]

\* the time the i-th capture of a stability run takes, in ticks
StabLatency(in, i) == IF i = in.slowAt THEN in.slowLat ELSE in.fastLat

\* the frame the device holds at the i-th capture: pixel 1 reads 7, the
\* other pixels read 7 at odd captures and 0 at even ones
StabFrame(i) == [p \in 1..NPix |-> IF p = 1 \/ i % 2 = 1 THEN 7 ELSE 0]

\* what DeviceStreamRead gives at the i-th capture of a stability run
StabCapture(in, i) ==
    IF in.dead THEN None
    ELSE IF i = in.holeAt THEN in.hole
    ELSE Some(StabFrame(i))

\* the frame has a valid region
HasValid(depth_data) ==
    depth_data # None /\ ValidPixels(Val(depth_data)) # {}

\* one iteration of the while loop of test_stability, entered st.t ticks
\* after start_time as its st.i-th: it captures, measures, and sleeps up to
\* the interval when the capture took less
StabilityIteration(in, conn, scale, st) ==
    LET depth_data == capture_single_frame(conn, StabCapture(in, st.i))
        elapsed == StabLatency(in, st.i)
    IN  [proc |-> "stability_loop",
         t |-> IF elapsed < Interval THEN st.t + Interval
               ELSE st.t + elapsed,
         i |-> st.i + 1,
         measurements |->
             IF HasValid(depth_data)
             THEN Append(st.measurements,
                         TimedMeasurement(Val(depth_data), scale,
                                          st.t + elapsed))
             ELSE st.measurements]

\* int(duration / interval) rounded up instead of down
ExpectedCount_Ceil(duration) == (duration + Interval - 1) \div Interval

\* int(duration / interval), duration in ticks
ExpectedCount(duration) == duration \div Interval

\* Naturals beyond 32 bits as <<high, low>> in base 65536: the square of a
\* 16-bit difference
Big0 == <<0, 0>>

BigAdd(x, y) ==
    <<x[1] + y[1] + (x[2] + y[2]) \div (MaxRaw + 1),
      (x[2] + y[2]) % (MaxRaw + 1)>>

BigLeq(x, y) == x[1] < y[1] \/ (x[1] = y[1] /\ x[2] <= y[2])

BigMax(S) == CHOOSE x \in S : \A y \in S : BigLeq(y, x)

\* d * d for 0 <= d <= 65535, from d = a * 256 + b
Sq(d) ==
    LET a == d \div 256
        b == d % 256
        mid == 2 * a * b * 256 + b * b
    IN  <<a * a + mid \div (MaxRaw + 1), mid % (MaxRaw + 1)>>

Abs(x) == IF x < 0 THEN -x ELSE x

RECURSIVE BigSum(_)
BigSum(s) == IF s = <<>> THEN Big0 ELSE BigAdd(Head(s), BigSum(Tail(s)))

\* the deviations taken from 0 instead of the mean over the stack
VarianceNum_Uncentred(column) ==
    BigSum([i \in 1..Len(column) |-> Sq(column[i])])

\* np.std(depth_maps, axis=0) at one pixel, squared and times n * n, n the
\* stack height: n * sum(x^2) - sum(x)^2, which is the sum of the squared
\* differences of every two readings of the pixel
VarianceNum(column) ==
    LET n == Len(column)
        pairs == {pr \in (1..n) \X (1..n) : pr[1] < pr[2]}
        order == SortedSeq({pr[1] * (n + 1) + pr[2] : pr \in pairs})
    IN  BigSum([k \in 1..Len(order) |->
                  Sq(Abs(column[order[k] \div (n + 1)]
                         - column[order[k] % (n + 1)]))])

\* the readings of pixel p over the stack
NoiseColumn(depth_maps, p) ==
    [i \in 1..Len(depth_maps) |-> depth_maps[i][p]]

\* valid_mask of test_noise: 0 < mean_depth < 65535, the mean over the n
\* stacked frames being sum / n
NoiseMask(depth_maps) ==
    {p \in 1..NPix :
        /\ SeqSum(NoiseColumn(depth_maps, p)) > 0
        /\ SeqSum(NoiseColumn(depth_maps, p)) < MaxRaw * Len(depth_maps)}

\* (n * std_depth)^2 at every pixel
StdDepthSq(depth_maps) ==
    [p \in 1..NPix |-> VarianceNum(NoiseColumn(depth_maps, p))]

\* test_noise: in.caps are the count captures of the loop.  The reported
\* figures are kept exact: with q the values of (n * std_depth)^2 over the
\* mask, noise_max is times * sqrt(sqrt_of) / over, noise_mean is
\* times * sum(sqrt(q)) / over and noise_std is times * std(sqrt(q)) / over;
\* on an empty mask the three are 0
test_noise(in, conn, count, scale) ==
    IF in.fault # None THEN Raised(Val(in.fault), 0)
    ELSE LET depth_maps == Got(CaptureAll(conn, in.caps))
             n == Len(depth_maps)
             valid_mask == NoiseMask(depth_maps)
             std_depth == StdDepthSq(depth_maps)
             masked == [k \in 1..Cardinality(valid_mask) |->
                          std_depth[SortedSeq(valid_mask)[k]]]
         IN  IF n < 2
             THEN Returned([error |-> "not enough data"], Reads(conn, count))
             ELSE Returned(
                    [test_count |-> count,
                     success_count |-> n,
                     success_rate |-> <<n, count>>,
                     noise_mean |->
                         [sum_sqrt_of |-> masked,
                          over |-> IF valid_mask # {}
                                   THEN n * Cardinality(valid_mask) ELSE 1,
                          times |-> EffectiveScale(scale)],
                     noise_std |->
                         [std_sqrt_of |-> masked,
                          over |-> n,
                          times |-> EffectiveScale(scale)],
                     noise_max |->
                         [sqrt_of |-> BigMax(SeqRange(masked) \cup {Big0}),
                          over |-> n,
                          times |-> EffectiveScale(scale)],
                     valid_pixels_ratio |-> <<Cardinality(valid_mask), NPix>>],
                    Reads(conn, count))

(***************************************************************************)
(* Test Harness                                                            *)
(***************************************************************************)
\* the append moved into the try block: a failed result is never recorded
AppendResult_OnlyOnSuccess(results, r) ==
    IF r.success THEN Append(results, r) ELSE results

\* the result list after run_test's append
AppendResult(results, r) == Append(results, r)

\* result.data = data forgotten: the returned dict is dropped
run_test_DataDropped(test_name, out) ==
    [test_name |-> test_name,
     success |-> ~out.raised,
     data |-> EmptyDict,
     error_message |-> IF out.raised THEN Some(out.msg) ELSE None]

\* result.error_message = str(e) forgotten: the message stays None
run_test_NoMessage(test_name, out) ==
    [test_name |-> test_name,
     success |-> ~out.raised,
     data |-> IF out.raised THEN EmptyDict ELSE out.data,
     error_message |-> None]

\* run_test: the TestResult built from the outcome of test_func(**kwargs)
run_test(test_name, out) ==
    [test_name |-> test_name,
     success |-> ~out.raised,
     data |-> IF out.raised THEN EmptyDict ELSE out.data,
     error_message |-> IF out.raised THEN Some(out.msg) ELSE None]

\* the enable-condition written as "not zero"
IsEnabled_NotZero(param) == param # 0

\* the enable-condition of the skippable procedures
IsEnabled(param) == param > 0

ProcEnabled(name, params) ==
    CASE name = "basic" -> TRUE
      [] name = "frame_rate" -> IsEnabled(params.frame_rate_test_duration)
      [] name = "repeatability" -> TRUE
      [] name = "stability" -> IsEnabled(params.stability_test_duration)
      [] name = "noise" -> IsEnabled(params.noise_test_count)

\* the result of setup_camera() ignored
AfterSetup_Ignored(ok) == "basic"

\* where run_all_tests goes after setup_camera(): on to the first
\* procedure, or back to main() with an empty list
AfterSetup(ok) == IF ok THEN "basic" ELSE "save"

(***************************************************************************)
(* setup_camera.  in.list, in.open, in.register, in.scale, in.enable and   *)
(* in.on are the outcomes of the SDK calls, in call order; a call after    *)
(* the failing one is never made.                                          *)
(***************************************************************************)
SetupInputs ==
    [list : {"raise", "empty", "found"},
     open : {"raise", "invalid", "valid"},
     register : {"ok", "raise"},
     scale : {None} \cup {Some(v) : v \in DeviceScales},
     enable : {"ok", "fail", "raise"},
     on : {"ok", "fail", "raise"}]

\* the fallback to the default forgotten
ScaleAfterRead_NoDefault(read) == read

\* the session scale factor after DeviceReadCalibDepthScaleUnit returned
\* read (None: the call raised)
ScaleAfterRead(read) == IF read # None THEN read ELSE Some(DefaultScale)

setup_camera(in) ==
    LET failed(step, h, conn, sc, w) ==
            [ok |-> FALSE, failure |-> step, handle |-> h, is_connected |-> conn,
             scale |-> sc, writes |-> w, scaleRead |-> IF w = 1 THEN in.scale ELSE None,
             opened |-> IF h = "H" THEN 1 ELSE 0]
    IN  IF in.list = "raise" THEN failed("list", "None", FALSE, None, 0)
        ELSE IF in.list = "empty" THEN failed("no_device", "None", FALSE, None, 0)
        ELSE IF in.open = "raise" THEN failed("open", "None", FALSE, None, 0)
        ELSE IF in.open = "invalid" THEN failed("open", "Invalid", FALSE, None, 0)
        ELSE IF in.register = "raise" THEN failed("register", "H", FALSE, None, 0)
        ELSE IF in.enable # "ok"
        THEN failed("enable", "H", TRUE, ScaleAfterRead(in.scale), 1)
        ELSE IF in.on # "ok"
        THEN failed("on", "H", TRUE, ScaleAfterRead(in.scale), 1)
        ELSE [ok |-> TRUE, failure |-> "none", handle |-> "H",
              is_connected |-> TRUE, scale |-> ScaleAfterRead(in.scale),
              writes |-> 1, scaleRead |-> in.scale, opened |-> 1]

(***************************************************************************)
(* close().  The exceptions of DeviceStreamOff and Close are caught inside *)
(* and change nothing of what follows.                                     *)
(***************************************************************************)
close(h, conn) ==
    IF conn /\ h = "H"
    THEN [handle |-> "None", is_connected |-> FALSE, off |-> 1, close |-> 1]
    ELSE [handle |-> h, is_connected |-> conn, off |-> 0, close |-> 0]

CloseCall ==
    LET c == close(handle, is_connected)
    IN  /\ handle' = c.handle
        /\ is_connected' = c.is_connected
        /\ streamOffCalls' = streamOffCalls + c.off
        /\ closeCalls' = closeCalls + c.close
        /\ closeReturns' = closeReturns + 1

\* no procedure is called on its own in a driver run
NoCall == [proc |-> "none"]

(***************************************************************************)
(* Initial state: the session as __init__ leaves it, with the configured   *)
(* test parameters                                                         *)
(***************************************************************************)
Init ==
    /\ pc = "start"
    /\ handle = "None"
    /\ is_connected = FALSE
    /\ depth_scale_factor = None
    /\ test_results = <<>>
    /\ test_params \in [frame_rate_test_duration : DurationVals,
                        repeatability_test_count : RepeatCountVals,
                        stability_test_duration : DurationVals,
                        noise_test_count : NoiseCountVals]
    /\ scaleWrites = 0
    /\ scaleRead = None
    /\ openCalls = 0
    /\ closeCalls = 0
    /\ streamOffCalls = 0
    /\ readCalls = 0
    /\ invoked = <<>>
    /\ setupFailure = "unset"
    /\ saveCalls = 0
    /\ reportCalls = 0
    /\ interrupted = "no"
    /\ ratReturned = FALSE
    /\ closeReturns = 0
    /\ call = NoCall
    /\ ret = NoCall

(***************************************************************************)
(* run_all_tests, one step per call it makes                               *)
(***************************************************************************)
Setup ==
    /\ pc = "start"
    /\ \E in \in SetupInputs :
         LET r == setup_camera(in)
         IN  /\ handle' = r.handle
             /\ is_connected' = r.is_connected
             /\ depth_scale_factor' = r.scale
             /\ scaleWrites' = scaleWrites + r.writes
             /\ scaleRead' = r.scaleRead
             /\ openCalls' = openCalls + r.opened
             /\ setupFailure' = r.failure
             /\ pc' = AfterSetup(r.ok)
             /\ ratReturned' = (AfterSetup(r.ok) = "save")
    /\ UNCHANGED <<test_results, test_params, closeCalls, streamOffCalls,
                   readCalls, invoked, saveCalls, reportCalls, interrupted,
                   closeReturns, call, ret>>

\* self.run_test(test_func, name): invoke, record, append
RunTest(name, out) ==
    /\ test_results' = AppendResult(test_results, run_test(name, out))
    /\ invoked' = Append(invoked, [proc |-> name, raised |-> out.raised,
                                   msg |-> out.msg, data |-> out.data])
    /\ readCalls' = readCalls + out.reads

Skip == UNCHANGED <<test_results, invoked, readCalls>>

harnessUnchanged ==
    UNCHANGED <<handle, is_connected, depth_scale_factor, test_params,
                scaleWrites, scaleRead, openCalls, closeCalls, streamOffCalls,
                setupFailure, saveCalls, reportCalls, interrupted,
                closeReturns, call, ret>>

BasicInputs == [fault : Faults, listed : BOOLEAN, cap : HarnessCaptures]

StepBasic ==
    /\ pc = "basic"
    /\ \E in \in BasicInputs :
         RunTest("basic", test_basic_functionality(in, is_connected,
                                                  depth_scale_factor))
    /\ pc' = "frame_rate"
    /\ UNCHANGED ratReturned
    /\ harnessUnchanged

LoopInputs == [fault : Faults, caps : SeqsOf(HarnessCaptures, 0, MaxIter)]

StepFrameRate ==
    /\ pc = "frame_rate"
    /\ IF ProcEnabled("frame_rate", test_params)
       THEN \E in \in LoopInputs :
              RunTest("frame_rate",
                      test_frame_rate(in, is_connected,
                                      test_params.frame_rate_test_duration))
       ELSE Skip
    /\ pc' = "repeatability"
    /\ UNCHANGED ratReturned
    /\ harnessUnchanged

RepeatInputs(count) ==
    {in \in [fault : Faults, seed : HarnessCaptures,
             sel : SeqsOf(1..NPix, 0, NPix),
             caps : [1..count -> HarnessCaptures]] :
        in.sel \in (IF in.seed = None THEN {<<>>}
                    ELSE Selections(Val(in.seed)))}

StepRepeatability ==
    /\ pc = "repeatability"
    /\ \E in \in RepeatInputs(test_params.repeatability_test_count) :
         RunTest("repeatability",
                 test_repeatability(in, is_connected,
                                    test_params.repeatability_test_count,
                                    depth_scale_factor))
    /\ pc' = "stability"
    /\ UNCHANGED ratReturned
    /\ harnessUnchanged

\* every iteration of the stability loop lasts at least the 1 s interval,
\* so a duration of d seconds leaves room for at most d iterations
StabilityInputs(duration) ==
    [fault : Faults,
     caps : SeqsOf(HarnessCaptures, 0,
                   IF duration > 0 THEN Min2(duration, MaxIter) ELSE 0)]

StepStability ==
    /\ pc = "stability"
    /\ IF ProcEnabled("stability", test_params)
       THEN \E in \in StabilityInputs(test_params.stability_test_duration) :
              RunTest("stability",
                      test_stability(in, is_connected,
                                     test_params.stability_test_duration,
                                     depth_scale_factor))
       ELSE Skip
    /\ pc' = "noise"
    /\ UNCHANGED ratReturned
    /\ harnessUnchanged

NoiseInputs(count) == [fault : Faults, caps : [1..count -> HarnessCaptures]]

\* the last step of run_all_tests: it returns self.test_results to main()
StepNoise ==
    /\ pc = "noise"
    /\ IF ProcEnabled("noise", test_params)
       THEN \E in \in NoiseInputs(test_params.noise_test_count) :
              RunTest("noise", test_noise(in, is_connected,
                                          test_params.noise_test_count,
                                          depth_scale_factor))
       ELSE Skip
    /\ pc' = "save"
    /\ ratReturned' = TRUE
    /\ harnessUnchanged

(***************************************************************************)
(* main(): save, report, the except block, the finally block               *)
(***************************************************************************)
mainUnchanged ==
    UNCHANGED <<handle, is_connected, depth_scale_factor, test_results,
                test_params, scaleWrites, scaleRead, openCalls, closeCalls,
                streamOffCalls, readCalls, invoked, setupFailure,
                ratReturned, closeReturns, call, ret>>

\* tester.save_results() in the try block; an exception goes to except
Save ==
    /\ pc = "save"
    /\ saveCalls' = saveCalls + 1
    /\ \E raises \in BOOLEAN : pc' = IF raises THEN "except" ELSE "report"
    /\ UNCHANGED <<reportCalls, interrupted>>
    /\ mainUnchanged

\* tester.generate_report() and the printed summary
Report ==
    /\ pc = "report"
    /\ reportCalls' = reportCalls + 1
    /\ \E raises \in BOOLEAN : pc' = IF raises THEN "except" ELSE "finally"
    /\ UNCHANGED <<saveCalls, interrupted>>
    /\ mainUnchanged

\* except Exception: save and report again when there are results
Except ==
    /\ pc = "except"
    /\ IF test_results # <<>>
       THEN \E saveRaises \in BOOLEAN :
              /\ saveCalls' = saveCalls + 1
              /\ reportCalls' = IF saveRaises THEN reportCalls
                                ELSE reportCalls + 1
       ELSE UNCHANGED <<saveCalls, reportCalls>>
    /\ pc' = "finally"
    /\ UNCHANGED interrupted
    /\ mainUnchanged

\* a KeyboardInterrupt (not an Exception) arrives while the try block runs:
\* run_test does not catch it and neither does main's except clause
Interrupt ==
    /\ pc \in {"start", "basic", "frame_rate", "repeatability", "stability",
               "noise", "save", "report"}
    /\ interrupted' = pc
    /\ pc' = "finally"
    /\ UNCHANGED <<saveCalls, reportCalls>>
    /\ mainUnchanged

\* finally: close the session if it is connected
Finally ==
    /\ pc = "finally"
    /\ IF is_connected THEN CloseCall
       ELSE UNCHANGED <<handle, is_connected, streamOffCalls, closeCalls,
                        closeReturns>>
    /\ pc' = "done"
    /\ UNCHANGED <<depth_scale_factor, test_results, test_params, scaleWrites,
                   scaleRead, openCalls, readCalls, invoked, setupFailure,
                   saveCalls, reportCalls, interrupted, ratReturned, call, ret>>

Next ==
    \/ Setup
    \/ StepBasic
    \/ StepFrameRate
    \/ StepRepeatability
    \/ StepStability
    \/ StepNoise
    \/ Save
    \/ Report
    \/ Except
    \/ Interrupt
    \/ Finally

Spec == Init /\ [][Next]_vars

\* a caller closes the session again after the driver has ended
CloseAgain ==
    /\ pc = "done"
    /\ closeReturns < MaxClose
    /\ CloseCall
    /\ UNCHANGED <<pc, depth_scale_factor, test_results, test_params,
                   scaleWrites, scaleRead, openCalls, readCalls, invoked,
                   setupFailure, saveCalls, reportCalls, interrupted,
                   ratReturned, call, ret>>

NextClose == Next \/ CloseAgain

SpecClose == Init /\ [][NextClose]_vars

(***************************************************************************)
(* The procedures called on their own, on inputs drawn in the initial      *)
(* state.  The session is the one __init__ leaves, connected, with the     *)
(* scale factor of the call.                                               *)
(***************************************************************************)
SessionIdle ==
    /\ pc = "start"
    /\ handle = "None"
    /\ is_connected = FALSE
    /\ depth_scale_factor = None
    /\ test_results = <<>>
    /\ test_params = [frame_rate_test_duration |-> 0,
                      repeatability_test_count |-> MaxCount,
                      stability_test_duration |-> 0,
                      noise_test_count |-> MaxCount]
    /\ scaleWrites = 0
    /\ scaleRead = None
    /\ openCalls = 0
    /\ closeCalls = 0
    /\ streamOffCalls = 0
    /\ readCalls = 0
    /\ invoked = <<>>
    /\ setupFailure = "unset"
    /\ saveCalls = 0
    /\ reportCalls = 0
    /\ interrupted = "no"
    /\ ratReturned = FALSE
    /\ closeReturns = 0

sessionUnchanged ==
    UNCHANGED <<pc, handle, is_connected, depth_scale_factor, test_results,
                test_params, scaleWrites, scaleRead, openCalls, closeCalls,
                streamOffCalls, readCalls, invoked, setupFailure, saveCalls,
                reportCalls, interrupted, ratReturned, closeReturns>>

\* the scale factors of a session: never read, the default, the device's
SessionScales == {None, Some(DefaultScale)} \cup {Some(v) : v \in DeviceScales}

\* valid-pixel sets of a seed frame: the first k pixels, all but one pixel,
\* two pixels apart
ValidSets ==
    {1..k : k \in 1..MaxValid}
    \cup {(1..MaxValid) \ {x} : x \in 1..MaxValid}
    \cup {{k, MaxValid} : k \in 1..MaxValid}

InitSelect ==
    /\ SessionIdle
    /\ call \in [proc : {"select"}, V : ValidSets]
    /\ ret = NoCall

\* test_repeatability selects its test points
Select ==
    /\ call.proc = "select"
    /\ ret = NoCall
    /\ \E sel \in SelectPoints(call.V) :
          ret' = [proc |-> "select", sel |-> sel]
    /\ UNCHANGED call
    /\ sessionUnchanged

NextSelect == Select

SpecSelect == InitSelect /\ [][NextSelect]_vars

\* stability durations in ticks: up to 3 seconds, and the longest
StabDurations == (1..6) \cup {MaxTicks - 1, MaxTicks}

\* a stability run: its duration, the latency of every capture and of one
\* slow capture, one capture without valid region, or a dead device
StabCalls ==
    [proc : {"stability"},
     duration : StabDurations,
     fastLat : {0, 1},
     slowAt : {0, 1, 2},
     slowLat : {3, 5},
     dead : BOOLEAN,
     holeAt : {0, 1, 3},
     hole : {None, Some(UniformFrame(0))},
     scale : SessionScales]

InitStab ==
    /\ SessionIdle
    /\ call \in StabCalls
    /\ ret = NoCall

\* test_stability is entered: measurements = [], start_time = now
StartStability ==
    /\ call.proc = "stability"
    /\ ret = NoCall
    /\ ret' = [proc |-> "stability_loop", t |-> 0, i |-> 1,
               measurements |-> <<>>]
    /\ UNCHANGED call
    /\ sessionUnchanged

\* the loop condition holds: one more iteration
StabilityIterate ==
    /\ ret.proc = "stability_loop"
    /\ ret.t < call.duration
    /\ ret' = StabilityIteration(call, TRUE, call.scale, ret)
    /\ UNCHANGED call
    /\ sessionUnchanged

\* the deadline has passed: the analysis, on the clock (duration in ticks)
StabilityReturn ==
    /\ ret.proc = "stability_loop"
    /\ ~(ret.t < call.duration)
    /\ ret' = [proc |-> "stability",
               loop |-> [iterations |-> ret.i - 1,
                         measurements |-> ret.measurements],
               out |-> StabilityAnalysis(ret.measurements, call.duration,
                                         ExpectedCount(call.duration),
                                         Reads(TRUE, ret.i - 1))]
    /\ UNCHANGED call
    /\ sessionUnchanged

NextStab == StartStability \/ StabilityIterate \/ StabilityReturn

SpecStab == InitStab /\ [][NextStab]_vars

\* frames that differ between the first pixel and the others
SplitFrames ==
    {[p \in 1..NPix |-> IF p = 1 THEN a ELSE b] : a, b \in RawVals}

\* what an acquisition of the sampling loop yields: nothing, a split frame,
\* or a frame reading 7 or 8 throughout
LoopCaptures ==
    {None} \cup {Some(f) : f \in SplitFrames}
           \cup {Some(UniformFrame(v)) : v \in {7, 8}}

\* a repeatability run: a seed frame with a valid region, the acquisitions
\* the device would yield, the configured count and the session's scale
RepeatCalls ==
    [proc : {"repeatability"},
     seed : {f \in SplitFrames : ValidPixels(f) # {}},
     caps : [1..MaxCount -> LoopCaptures],
     count : 0..MaxCount,
     scale : SessionScales]

InitRepeat ==
    /\ SessionIdle
    /\ call \in RepeatCalls
    /\ ret = NoCall

\* test_repeatability runs to its end on a connected session
RunRepeatability ==
    /\ call.proc = "repeatability"
    /\ ret = NoCall
    /\ \E sel \in Selections(call.seed) :
         ret' = [proc |-> "repeatability",
                 sel |-> sel,
                 loop |-> SamplingLoop(TRUE, call.caps, call.count, sel,
                                       call.scale),
                 out |-> test_repeatability(
                           [fault |-> None, seed |-> Some(call.seed),
                            sel |-> sel, caps |-> call.caps],
                           TRUE, call.count, call.scale)]
    /\ UNCHANGED call
    /\ sessionUnchanged

NextRepeat == RunRepeatability

SpecRepeat == InitRepeat /\ [][NextRepeat]_vars

\* a noise run: the acquisitions the device would yield, the configured
\* count and the session's scale
NoiseCalls ==
    [proc : {"noise"},
     caps : [1..MaxCount -> LoopCaptures],
     count : 0..MaxCount,
     scale : SessionScales]

InitNoise ==
    /\ SessionIdle
    /\ call \in NoiseCalls
    /\ ret = NoCall

\* test_noise runs to its end on a connected session
RunNoise ==
    /\ call.proc = "noise"
    /\ ret = NoCall
    /\ LET caps == SubSeq(call.caps, 1, call.count)
       IN  ret' = [proc |-> "noise",
                   valid_mask |-> NoiseMask(Got(caps)),
                   std_depth |-> StdDepthSq(Got(caps)),
                   out |-> test_noise([fault |-> None, caps |-> caps],
                                      TRUE, call.count, call.scale)]
    /\ UNCHANGED call
    /\ sessionUnchanged

NextNoise == RunNoise

SpecNoise == InitNoise /\ [][NextNoise]_vars

(***************************************************************************)
(* Properties                                                              *)
(***************************************************************************)
ResultNames == [i \in 1..Len(test_results) |-> test_results[i].test_name]

InvokedNames == [i \in 1..Len(invoked) |-> invoked[i].proc]

\* the procedures run_all_tests executes, in execution order
EnabledProcs == SelectSeq(ProcNames, LAMBDA n : ProcEnabled(n, test_params))

\* run_all_tests() has returned after a successful setup
RanToReturn == ratReturned /\ setupFailure = "none"

IsPrefix(s, t) == Len(s) <= Len(t) /\ SubSeq(t, 1, Len(s)) = s

\* C3: every TestResult of the list has success = false only with an error
\* message set and empty data, and success = true only with no error message
C3_ResultWellFormed ==
    \A i \in 1..Len(test_results) :
        /\ ~test_results[i].success =>
              /\ test_results[i].error_message # None
              /\ test_results[i].data = EmptyDict
        /\ test_results[i].success => test_results[i].error_message = None

C3_Witness ==
    /\ RanToReturn
    /\ \E i, j \in 1..Len(test_results) :
          ~test_results[i].success /\ test_results[j].success

\* C1: once run_all_tests() has returned after a successful setup, the
\* result list names exactly the enabled procedures, once each, in execution
\* order, whichever of them failed; and every step leaves the list unchanged
\* or appends one result to it
C1_OnePerEnabledInOrder ==
    /\ [](RanToReturn => ResultNames = EnabledProcs)
    /\ [][/\ IsPrefix(test_results, test_results')
          /\ Len(test_results') <= Len(test_results) + 1]_vars

C1_Witness ==
    /\ RanToReturn
    /\ Len(test_results) = 5
    /\ ~test_results[1].success
    /\ test_results[2].success
    /\ ~test_results[4].success

LacksData(k) ==
    /\ ~invoked[k].raised
    /\ \/ "error" \in DOMAIN invoked[k].data
       \/ invoked[k].proc = "basic" /\ invoked[k].data.single_capture = None
       \/ invoked[k].proc = "frame_rate"
            /\ invoked[k].data.total_attempts > 0
            /\ invoked[k].data.successful_captures = 0

\* C4: a procedure that could not obtain the data it needs is recorded with
\* success = false and an error message
C4_NoDataIsFailure ==
    \A k \in 1..Len(invoked) :
        (k <= Len(test_results) /\ LacksData(k)) =>
            /\ ~test_results[k].success
            /\ test_results[k].error_message # None

\* C5: a driver run that opened the device has called the SDK close exactly
\* once when it ends
C5_ReleasedExactlyOnce ==
    (pc = "done" /\ openCalls > 0) => closeCalls = 1

\* C6: a driver run interrupted during run_all_tests() with results already
\* collected has attempted to save them and has released the connection when
\* it ends
C6_InterruptedRunSaves ==
    (/\ pc = "done"
     /\ interrupted \in {"frame_rate", "repeatability", "stability", "noise"}
     /\ test_results # <<>>) =>
        /\ saveCalls > 0
        /\ closeCalls = 1

\* C7: after a failed connection step no procedure is ever invoked, no frame
\* is ever read, the result list stays empty and run_all_tests() has returned
C7_SetupFailureAborts ==
    setupFailure \notin {"unset", "none"} =>
        /\ invoked = <<>>
        /\ readCalls = 0
        /\ test_results = <<>>
        /\ ratReturned
        /\ pc \in {"save", "report", "except", "finally", "done"}

C7_Witness ==
    /\ pc = "done"
    /\ setupFailure = "on"
    /\ saveCalls > 0

Param(name) ==
    CASE name = "frame_rate" -> test_params.frame_rate_test_duration
      [] name = "stability" -> test_params.stability_test_duration
      [] name = "noise" -> test_params.noise_test_count

Skippable == {"frame_rate", "stability", "noise"}

WasInvoked(name) == \E k \in 1..Len(invoked) : invoked[k].proc = name

NumResults(name) ==
    Cardinality({i \in 1..Len(test_results) : test_results[i].test_name = name})

\* C8 as stated: after a successful setup basic and repeatability are
\* invoked, and a skippable procedure is invoked iff its parameter is not zero
C8_InvokedIffNotZero ==
    RanToReturn =>
        /\ WasInvoked("basic") /\ WasInvoked("repeatability")
        /\ \A n \in Skippable :
              /\ WasInvoked(n) <=> Param(n) # 0
              /\ ~WasInvoked(n) => NumResults(n) = 0

\* C8 amended: after a successful setup basic and repeatability are invoked,
\* a skippable procedure is invoked iff its parameter is greater than zero,
\* and a skipped procedure has no result
C8_InvokedIffPositive ==
    RanToReturn =>
        /\ WasInvoked("basic") /\ WasInvoked("repeatability")
        /\ \A n \in Skippable :
              /\ WasInvoked(n) <=> Param(n) > 0
              /\ ~WasInvoked(n) => NumResults(n) = 0

C8_Witness ==
    /\ RanToReturn
    /\ Param("frame_rate") < 0 /\ ~WasInvoked("frame_rate")
    /\ Param("stability") > 0 /\ WasInvoked("stability")
    /\ Param("noise") = 0 /\ ~WasInvoked("noise")

\* C9: the scale factor is assigned at most once, by setup_camera, once the
\* device is connected: to the value read from the device, or to the
\* default when the read raised, which does not fail the setup; no later
\* step changes it
C9_ScaleSetOnceInSetup ==
    /\ [](/\ scaleWrites <= 1
          /\ scaleWrites = 0 => depth_scale_factor = None
          /\ scaleWrites = 1 =>
                /\ setupFailure \in {"none", "enable", "on"}
                /\ depth_scale_factor =
                     (IF scaleRead # None THEN scaleRead
                      ELSE Some(DefaultScale))
          /\ setupFailure \in {"none", "enable", "on"} => scaleWrites = 1)
    /\ [][pc # "start" => /\ depth_scale_factor' = depth_scale_factor
                          /\ scaleWrites' = scaleWrites]_vars

C9_Witness ==
    /\ pc = "done"
    /\ setupFailure = "none"
    /\ scaleRead = None
    /\ depth_scale_factor = Some(DefaultScale)
    /\ Len(test_results) = 5
    /\ closeReturns = 1

\* C10: once a close() has returned, the session is not connected and holds
\* no device handle
C10_ClosedAfterClose ==
    closeReturns > 0 => (~is_connected /\ handle # "H")

\* C15: the selected test points are pairwise distinct pixels of the valid
\* set V of the seed frame, min(25, |V|) of them, and all of V when |V| < 25
C15_SelectionDistinctInValid ==
    ret.proc = "select" =>
        /\ Len(ret.sel) = Min2(TargetPoints, Cardinality(call.V))
        /\ \A a, b \in 1..Len(ret.sel) : a # b => ret.sel[a] # ret.sel[b]
        /\ SeqRange(ret.sel) \subseteq call.V
        /\ Cardinality(call.V) < TargetPoints => SeqRange(ret.sel) = call.V

C15_Witness ==
    /\ ret.proc = "select"
    /\ Cardinality(call.V) > TargetPoints
    /\ ret.sel[1] > ret.sel[TargetPoints]
    /\ 2 \notin SeqRange(ret.sel)

\* the captures of a finished stability run that carried a valid region
Obtained ==
    {i \in 1..ret.loop.iterations : HasValid(StabCapture(call, i))}

\* C11: a stability run that returns reports success_rate = measurements
\* obtained / floor(duration / interval); when no acquired frame carried a
\* valid region, stability_metrics is empty and success_rate is 0
C11_SuccessRateOverFloor ==
    (ret.proc = "stability" /\ ~ret.out.raised) =>
        /\ Obtained # {} =>
             ret.out.data.success_rate =
                 <<Cardinality(Obtained), call.duration \div Interval>>
        /\ Obtained = {} =>
             /\ ret.out.data.stability_metrics = None
             /\ ret.out.data.success_rate[1] = 0

C11_Witness ==
    /\ ret.proc = "stability"
    /\ ~ret.out.raised
    /\ call.duration % Interval = 1
    /\ call.holeAt = 1
    /\ Cardinality(Obtained) = 2

\* C16: the persisted measurements are the first min(50, M) of the M
\* collected, in collection order; total_measurements is M and the aggregate
\* metrics are taken over all M
C16_FirstFiftyKept ==
    (ret.proc = "stability" /\ ~ret.out.raised) =>
        LET all == ret.loop.measurements
            M == Len(all)
            d == ret.out.data
        IN  /\ d.measurements = SubSeq(all, 1, Min2(MeasurementsKept, M))
            /\ \A i \in 1..(Len(d.measurements) - 1) :
                 d.measurements[i].timestamp <= d.measurements[i + 1].timestamp
            /\ d.total_measurements = M
            /\ M > 0 =>
                 /\ Val(d.stability_metrics).n = M
                 /\ Val(d.stability_metrics).valid_pixels_sum =
                        SeqSum([i \in 1..M |-> all[i].valid_pixels])
                 /\ Val(d.stability_metrics).mean_depths =
                        [i \in 1..M |-> all[i].mean_depth]

C16_Witness ==
    /\ ret.proc = "stability"
    /\ ~ret.out.raised
    /\ Len(ret.loop.measurements) > MeasurementsKept
    /\ Len(ret.out.data.measurements) = MeasurementsKept
    /\ call.holeAt = 3

\* C17: an enabled stability run makes at most floor(duration / interval)
\* iterations, so total_measurements stays within the expected count, the
\* success rate is computed without dividing by zero and lies in [0, 1]
C17_WithinExpectedCount ==
    ret.proc = "stability" =>
        /\ call.duration > 0
        /\ ret.loop.iterations <= call.duration \div Interval
        /\ Len(ret.loop.measurements) <= call.duration \div Interval
        /\ ~ret.out.raised
        /\ ret.out.data.success_rate[1] <= ret.out.data.success_rate[2]

\* the acquisitions of the loop, among the first count, in which pixel p
\* read strictly between 0 and 65535
ValidAt(p) ==
    {i \in 1..call.count :
        call.caps[i] # None /\ Val(call.caps[i])[p] > 0
                            /\ Val(call.caps[i])[p] < MaxRaw}

\* the converted readings of pixel p in those acquisitions, in their order
SamplesOf(p) ==
    [k \in 1..Cardinality(ValidAt(p)) |->
        Val(call.caps[SortedSeq(ValidAt(p))[k]])[p]
            * EffectiveScale(call.scale)]

\* the selected points valid in at least 2 acquisitions
QualifyingPoints ==
    {j \in 1..Len(ret.sel) : Cardinality(ValidAt(ret.sel[j])) >= 2}

\* C12: point_analysis holds exactly the selected points valid in at least
\* 2 acquisitions and valid_points counts them; the run returns its error
\* exactly when there is none, and otherwise returns the raw sample
\* sequence of every selected point
C12_QualifyingPointsAnalysed ==
    ret.proc = "repeatability" =>
        /\ ~ret.out.raised
        /\ ("error" \in DOMAIN ret.out.data) <=> (QualifyingPoints = {})
        /\ "error" \notin DOMAIN ret.out.data =>
             LET d == ret.out.data
             IN  /\ {d.point_analysis[k].point_id :
                        k \in 1..Len(d.point_analysis)} = QualifyingPoints
                 /\ Len(d.point_analysis) = Cardinality(QualifyingPoints)
                 /\ d.valid_points = Len(d.point_analysis)
                 /\ DOMAIN d.raw_depth_data = 1..Len(ret.sel)
                 /\ \A j \in 1..Len(ret.sel) :
                      d.raw_depth_data[j] = SamplesOf(ret.sel[j])

C12_Witness ==
    /\ ret.proc = "repeatability"
    /\ "error" \notin DOMAIN ret.out.data
    /\ Len(ret.sel) = 2
    /\ ret.out.data.valid_points = 1
    /\ Len(ret.out.data.raw_depth_data[1]) = 1
    /\ ret.out.data.point_analysis[1].point_id = 2

\* C14: after a seed with a valid region the loop makes exactly count
\* acquisition attempts whichever fail; success_count is the number that
\* returned a frame; every point's samples are, in acquisition order, the
\* converted readings of the frames where it read strictly between 0 and
\* 65535, so a failed acquisition adds nothing and no sequence is longer
\* than success_count
C14_LoopRunsAllAttempts ==
    ret.proc = "repeatability" =>
        LET succeeded == {i \in 1..call.count : call.caps[i] # None}
        IN  /\ ret.loop.attempts = call.count
            /\ ret.out.reads = 1 + call.count
            /\ ret.loop.success_count = Cardinality(succeeded)
            /\ \A j \in 1..Len(ret.sel) :
                 /\ ret.loop.point_data[j] = SamplesOf(ret.sel[j])
                 /\ Len(ret.loop.point_data[j]) <= ret.loop.success_count
            /\ "error" \notin DOMAIN ret.out.data =>
                 /\ ret.out.data.success_count = Cardinality(succeeded)
                 /\ ret.out.data.raw_depth_data = ret.loop.point_data

C14_Witness ==
    /\ ret.proc = "repeatability"
    /\ call.count = MaxCount
    /\ call.caps[1] = None
    /\ call.caps[MaxCount] # None
    /\ ret.loop.attempts = MaxCount
    /\ ret.loop.success_count = MaxCount - 1
    /\ ret.loop.point_data[1] # <<>>

\* the frames a noise run captured
Stack == Got(SubSeq(call.caps, 1, call.count))

\* the reported figure is 0
MeanIsZero(x) ==
    x.times = 0 \/ \A k \in 1..Len(x.sum_sqrt_of) : x.sum_sqrt_of[k] = Big0
StdIsZero(x) ==
    x.times = 0 \/ \A k, l \in 1..Len(x.std_sqrt_of) :
                      x.std_sqrt_of[k] = x.std_sqrt_of[l]
MaxIsZero(x) == x.times = 0 \/ x.sqrt_of = Big0

\* C13: on a stack of at least 2 identical frames the standard deviation
\* across the stack is 0 at every pixel and noise_mean, noise_std and
\* noise_max are 0, whatever the frame and the scale factor
C13_IdenticalFramesNoNoise ==
    (/\ ret.proc = "noise"
     /\ Len(Stack) >= 2
     /\ \A i \in 1..Len(Stack) : Stack[i] = Stack[1]) =>
        /\ "error" \notin DOMAIN ret.out.data
        /\ \A p \in 1..NPix : ret.std_depth[p] = Big0
        /\ MeanIsZero(ret.out.data.noise_mean)
        /\ StdIsZero(ret.out.data.noise_std)
        /\ MaxIsZero(ret.out.data.noise_max)
        /\ ret.out.data.noise_max.sqrt_of = Big0

C13_Witness ==
    /\ ret.proc = "noise"
    /\ Len(Stack) = MaxCount
    /\ \A i \in 1..Len(Stack) : Stack[i] = Stack[1]
    /\ Stack[1][1] = MaxRaw
    /\ Stack[1][2] = 7
    /\ ret.valid_mask = (2..NPix)
    /\ call.scale = Some(DefaultScale)

\* the pixels whose raw value is 0 or 65535 in every captured frame
AlwaysInvalid ==
    {p \in 1..NPix : \A i \in 1..Len(Stack) : ~IsValid(Stack[i][p])}

\* C18: a pixel invalid in every captured frame is outside the valid
\* region of the noise procedure: it adds nothing to noise_mean, noise_std
\* and noise_max and is not counted in valid_pixels_ratio
C18_AlwaysInvalidExcluded ==
    (ret.proc = "noise" /\ "error" \notin DOMAIN ret.out.data) =>
        /\ AlwaysInvalid \cap ret.valid_mask = {}
        /\ ret.out.data.valid_pixels_ratio[1] <=
               NPix - Cardinality(AlwaysInvalid)
        /\ Len(ret.out.data.noise_mean.sum_sqrt_of) <=
               NPix - Cardinality(AlwaysInvalid)

====
